---- MODULE Spec2Model ----
(***************************************************************************)
(* A model of Fuzzyurl (src/src/fuzzyurl.js): URL masks, matching and      *)
(* best-match selection.  Strings are sequences of one-character strings;  *)
(* JavaScript values are tagged records; objects live in a heap and are    *)
(* passed by address.  The modules ./constructor, ./strings and ./match    *)
(* that fuzzyurl.js requires are not among the source files; Strings*,     *)
(* Match* and NewFuzzyurl below follow their description in spec.md.       *)
(***************************************************************************)
EXTENDS Integers, Sequences, FiniteSets, TLC

\* heap:   the objects alive, by address (heap[maskDefaults] is the module's
\*         template; the others are held by callers);
\* origin: for each address, the call that made the object (history);
\* last:   the call in progress: its name, arguments and result, or idle.
VARIABLES heap, origin, last

vars == <<heap, origin, last>>

(***************************************************************************)
(* Bounds of the model.                                                    *)
(***************************************************************************)
MaxHeap == 3
MaxMasks == 3
MaxLen == 3
MaxPart == 1

(***************************************************************************)
(* Strings and JavaScript values.                                          *)
(***************************************************************************)
\* An absent field (JavaScript undefined): a one-element sequence whose
\* element is not a character, so it differs from every string.
Undefined == <<"undefined">>

Star == <<"*">>

FieldNames == <<"protocol", "username", "password", "hostname",
                "port", "path", "query", "fragment">>

Fields == {FieldNames[i] : i \in 1..Len(FieldNames)}

JNull == [t |-> "null"]
JUndefined == [t |-> "undefined"]
JString(s) == [t |-> "string", s |-> s]
JNumber(n) == [t |-> "number", n |-> n]
JBoolean(b) == [t |-> "boolean", b |-> b]
JObject(a) == [t |-> "object", a |-> a]

\* JavaScript ToBoolean.
Truthy(v) ==
  CASE v.t = "null" -> FALSE
    [] v.t = "undefined" -> FALSE
    [] v.t = "string" -> v.s # <<>>
    [] v.t = "number" -> v.n # 0
    [] v.t = "boolean" -> v.b
    [] OTHER -> TRUE

\* ToBoolean of a field value (a string or undefined).
TruthyField(x) == x # Undefined /\ x # <<>>

StartsWith(s, p) == Len(p) <= Len(s) /\ SubSeq(s, 1, Len(p)) = p

EndsWith(s, p) == Len(p) <= Len(s) /\ SubSeq(s, Len(s) - Len(p) + 1, Len(s)) = p

\* First position at which p occurs in s, 0 when it does not.
IndexOfSub(s, p) ==
  LET hits == {i \in 1..(Len(s) - Len(p) + 1) : SubSeq(s, i, i + Len(p) - 1) = p}
  IN IF hits = {} THEN 0 ELSE CHOOSE i \in hits : \A j \in hits : i <= j

\* First position in s of a character of cs, 0 when there is none.
IndexOfAny(s, cs) ==
  LET hits == {i \in 1..Len(s) : s[i] \in cs}
  IN IF hits = {} THEN 0 ELSE CHOOSE i \in hits : \A j \in hits : i <= j

LastIndexOf(s, c) ==
  LET hits == {i \in 1..Len(s) : s[i] = c}
  IN IF hits = {} THEN 0 ELSE CHOOSE i \in hits : \A j \in hits : i >= j

Drop(s, n) == SubSeq(s, n + 1, Len(s))

Take(s, n) == SubSeq(s, 1, n)

\* Every string over alphabet of length at most n.
RECURSIVE StringsUpTo(_, _)
StringsUpTo(alphabet, n) ==
  IF n = 0 THEN {<<>>}
  ELSE LET shorter == StringsUpTo(alphabet, n - 1)
       IN shorter \cup {Append(s, c) : s \in shorter, c \in alphabet}

(***************************************************************************)
(* Records: the eight fields of a Fuzzyurl.                                *)
(***************************************************************************)
AllAbsent == [f \in Fields |-> Undefined]

\* The object literal bound to maskDefaults.
MaskDefaultsLiteral == [f \in Fields |-> Star]

\* const maskDefaults: the address of the template object.
maskDefaults == 1

\* {}: an object with none of the eight keys.
EmptyObject == AllAbsent

(***************************************************************************)
(* Strings.fromString and Strings.toString (spec.md 4.1).                  *)
(***************************************************************************)
\* Step 1: protocol and what follows "://".
ParseProtocol(s) ==
  LET i == IndexOfSub(s, <<":", "/", "/">>)
  IN IF i = 0 THEN [protocol |-> Undefined, rest |-> s]
     ELSE [protocol |-> Take(s, i - 1), rest |-> Drop(s, i + 2)]

\* Step 2: the credential part, when an "@" comes before any "/".
ParseCredentials(s) ==
  LET at == IndexOfAny(s, {"@"})
      slash == IndexOfAny(s, {"/"})
  IN IF at = 0 \/ (slash # 0 /\ slash < at)
     THEN [username |-> Undefined, password |-> Undefined, rest |-> s]
     ELSE LET cred == Take(s, at - 1)
              colon == IndexOfAny(cred, {":"})
          IN [username |-> IF colon = 0 THEN cred ELSE Take(cred, colon - 1),
              password |-> IF colon = 0 THEN Undefined ELSE Drop(cred, colon),
              rest |-> Drop(s, at)]

\* Step 3: host and port, up to the first of "/", "?", "#"; split on the last colon.
ParseHostPort(s) ==
  LET stop == IndexOfAny(s, {"/", "?", "#"})
      hp == IF stop = 0 THEN s ELSE Take(s, stop - 1)
      colon == LastIndexOf(hp, ":")
      host == IF colon = 0 THEN hp ELSE Take(hp, colon - 1)
  IN [hostname |-> IF host = <<>> THEN Undefined ELSE host,
      port |-> IF colon = 0 THEN Undefined ELSE Drop(hp, colon),
      rest |-> IF stop = 0 THEN <<>> ELSE Drop(s, stop - 1)]

\* Steps 4 to 6: path (with its slash), query, fragment.
ParseTail(s) ==
  LET hash == IndexOfAny(s, {"#"})
      beforeHash == IF hash = 0 THEN s ELSE Take(s, hash - 1)
      qm == IndexOfAny(beforeHash, {"?"})
      beforeQuery == IF qm = 0 THEN beforeHash ELSE Take(beforeHash, qm - 1)
  IN [path |-> IF beforeQuery = <<>> THEN Undefined ELSE beforeQuery,
      query |-> IF qm = 0 THEN Undefined ELSE Drop(beforeHash, qm),
      fragment |-> IF hash = 0 THEN Undefined ELSE Drop(s, hash)]

\* Strings.fromString(str, {default: dflt}); dflt = Undefined when none is given.
StringsFromString(str, dflt) ==
  LET p == ParseProtocol(str)
      c == ParseCredentials(p.rest)
      h == ParseHostPort(c.rest)
      t == ParseTail(h.rest)
      parsed == [protocol |-> p.protocol, username |-> c.username,
                 password |-> c.password, hostname |-> h.hostname,
                 port |-> h.port, path |-> t.path,
                 query |-> t.query, fragment |-> t.fragment]
  IN [f \in Fields |-> IF parsed[f] = Undefined THEN dflt ELSE parsed[f]]

\* A toString that tests fields for truth: an empty field loses its delimiter.
PartTruthy(x, before, after) == IF TruthyField(x) THEN before \o x \o after ELSE <<>>

StringsToStringTruthy(fu) ==
  PartTruthy(fu.protocol, <<>>, <<":", "/", "/">>)
  \o PartTruthy(fu.username, <<>>, <<>>)
  \o PartTruthy(fu.password, <<":">>, <<>>)
  \o (IF TruthyField(fu.username) THEN <<"@">> ELSE <<>>)
  \o PartTruthy(fu.hostname, <<>>, <<>>)
  \o PartTruthy(fu.port, <<":">>, <<>>)
  \o PartTruthy(fu.path, <<>>, <<>>)
  \o PartTruthy(fu.query, <<"?">>, <<>>)
  \o PartTruthy(fu.fragment, <<"#">>, <<>>)

Part(x, before, after) == IF x = Undefined THEN <<>> ELSE before \o x \o after

\* Strings.toString(fuzzyurl): the present fields, each with its delimiter.
StringsToString(fu) ==
  Part(fu.protocol, <<>>, <<":", "/", "/">>)
  \o Part(fu.username, <<>>, <<>>)
  \o Part(fu.password, <<":">>, <<>>)
  \o (IF fu.username = Undefined /\ fu.password = Undefined THEN <<>> ELSE <<"@">>)
  \o Part(fu.hostname, <<>>, <<>>)
  \o Part(fu.port, <<":">>, <<>>)
  \o Part(fu.path, <<>>, <<>>)
  \o Part(fu.query, <<"?">>, <<>>)
  \o Part(fu.fragment, <<"#">>, <<>>)

(***************************************************************************)
(* Match.fuzzyMatch and the operations built on it (spec.md 4.2 to 4.4).   *)
(***************************************************************************)
PERFECT == JNumber(1)

WILDCARD == JNumber(0)

NONE == JNull

\* A literal mask: PERFECT on equality (two absent values included), else NONE.
LiteralMatch(mask, value) == IF mask = value THEN PERFECT ELSE NONE

\* General fields: "X*" is a prefix, "*X" a suffix; any other "*" is literal.
GlobMatch(mask, value) ==
  LET n == Len(mask)
      stars == {i \in 1..n : mask[i] = "*"}
  IN IF stars = {n} THEN (IF StartsWith(value, Take(mask, n - 1)) THEN WILDCARD ELSE NONE)
     ELSE IF stars = {1} THEN (IF EndsWith(value, Drop(mask, 1)) THEN WILDCARD ELSE NONE)
     ELSE LiteralMatch(mask, value)

\* Whether value = x . "." . suffix where x holds a non-empty label.
HasLabelBefore(value, suffix) ==
  /\ EndsWith(value, <<".">> \o suffix)
  /\ \E i \in 1..(Len(value) - Len(suffix) - 1) : value[i] # "."

\* A "*" label that also accepts no label at all, as "**" does.
HostnameMatchStarInclusive(mask, value) ==
  IF value = Drop(mask, 2) \/ EndsWith(value, Drop(mask, 1)) THEN WILDCARD ELSE NONE

HostnameMatchStar(mask, value) ==
  IF HasLabelBefore(value, Drop(mask, 2)) THEN WILDCARD ELSE NONE

\* Hostname: a leading label "*" stands for one or more labels, "**" for zero
\* or more.
HostnameMatch(mask, value) ==
  IF StartsWith(mask, <<"*", ".">>) THEN HostnameMatchStar(mask, value)
  ELSE IF StartsWith(mask, <<"*", "*", ".">>)
       THEN (IF value = Drop(mask, 3) \/ EndsWith(value, Drop(mask, 2))
             THEN WILDCARD ELSE NONE)
       ELSE LiteralMatch(mask, value)

\* A "*" segment that also accepts the bare prefix, as "**" does.
PathMatchStarInclusive(mask, value) ==
  IF value = Take(mask, Len(mask) - 2) \/ StartsWith(value, Take(mask, Len(mask) - 1))
  THEN WILDCARD ELSE NONE

PathMatchStar(mask, value) ==
  IF StartsWith(value, Take(mask, Len(mask) - 1)) THEN WILDCARD ELSE NONE

\* Path: a final segment "*" needs the slash before it, "**" also accepts
\* the bare prefix.
PathMatch(mask, value) ==
  IF EndsWith(mask, <<"/", "*", "*">>)
  THEN (IF value = Take(mask, Len(mask) - 3) \/ StartsWith(value, Take(mask, Len(mask) - 2))
        THEN WILDCARD ELSE NONE)
  ELSE IF EndsWith(mask, <<"/", "*">>) THEN PathMatchStar(mask, value)
       ELSE LiteralMatch(mask, value)

FieldKind(f) == IF f \in {"hostname", "path"} THEN f ELSE "general"

\* fuzzyMatch(maskFieldValue, urlFieldValue, fieldKind)
MatchFuzzyMatch(mask, value, kind) ==
  IF mask = Star THEN WILDCARD
  ELSE IF mask = Undefined \/ value = Undefined THEN LiteralMatch(mask, value)
  ELSE IF kind = "hostname" THEN HostnameMatch(mask, value)
  ELSE IF kind = "path" THEN PathMatch(mask, value)
  ELSE GlobMatch(mask, value)

\* Match.matchScores(mask, url): the eight per-field outcomes.
MatchMatchScores(mask, url) ==
  [f \in Fields |-> MatchFuzzyMatch(mask[f], url[f], FieldKind(f))]

RECURSIVE SumScores(_, _)
SumScores(scores, i) ==
  IF i = 0 THEN 0 ELSE scores[FieldNames[i]].n + SumScores(scores, i - 1)

\* Match.match(mask, url): null when a field is NONE, else the sum.
MatchMatch(mask, url) ==
  LET scores == MatchMatchScores(mask, url)
  IN IF \E i \in 1..Len(FieldNames) : scores[FieldNames[i]] = NONE THEN JNull
     ELSE JNumber(SumScores(scores, Len(FieldNames)))

\* Match.matches(mask, url)
MatchMatches(mask, url) == JBoolean(MatchMatch(mask, url) # JNull)

\* Whether a candidate's score replaces the running best.
Replaces(score, best) == score # JNull /\ (best = JNull \/ score.n > best.n)

\* The scan of Match.bestMatchIndex from mask i on (indices are 0-based in
\* the result, as in JavaScript).
RECURSIVE BestFrom(_, _, _, _, _)
BestFrom(masks, url, i, bestIndex, bestScore) ==
  IF i > Len(masks) THEN bestIndex
  ELSE LET score == MatchMatch(masks[i], url)
       IN IF Replaces(score, bestScore)
          THEN BestFrom(masks, url, i + 1, JNumber(i - 1), score)
          ELSE BestFrom(masks, url, i + 1, bestIndex, bestScore)

\* Match.bestMatchIndex(masks, url)
MatchBestMatchIndex(masks, url) == BestFrom(masks, url, 1, JNull, JNull)

(***************************************************************************)
(* The functions of src/src/fuzzyurl.js.                                   *)
(***************************************************************************)
\* (typeof mask === "string") ? Strings.fromString(mask, {default: "*"}) : mask
MaskArg(h, mask) ==
  IF mask.t = "string" THEN StringsFromString(mask.s, Star) ELSE h[mask.a]

\* (typeof url === "string") ? Strings.fromString(url) : url
UrlArg(h, url) ==
  IF url.t = "string" THEN StringsFromString(url.s, Undefined) ELSE h[url.a]

\* Fuzzyurl.fromString = function (string): a second argument is not read.
FuzzyurlFromString(string, options) == StringsFromString(string, Undefined)

\* Fuzzyurl.toString
FuzzyurlToString(fuzzyurl) == StringsToString(fuzzyurl)

\* A match that parses a string mask without {default: "*"}.
FuzzyurlMatchNoDefault(h, mask, url) == MatchMatch(UrlArg(h, mask), UrlArg(h, url))

\* Fuzzyurl.match
FuzzyurlMatch(h, mask, url) == MatchMatch(MaskArg(h, mask), UrlArg(h, url))

\* Fuzzyurl.matches
FuzzyurlMatches(h, mask, url) == MatchMatches(MaskArg(h, mask), UrlArg(h, url))

\* Fuzzyurl.matchScores
FuzzyurlMatchScores(h, mask, url) ==
  MatchMatchScores(MaskArg(h, mask), UrlArg(h, url))

\* A bestMatchIndex that parses string masks without {default: "*"}.
FuzzyurlBestMatchIndexNoDefault(h, masks, url) ==
  MatchBestMatchIndex([i \in 1..Len(masks) |-> UrlArg(h, masks[i])], UrlArg(h, url))

\* Fuzzyurl.bestMatchIndex
FuzzyurlBestMatchIndex(h, masks, url) ==
  MatchBestMatchIndex([i \in 1..Len(masks) |-> MaskArg(h, masks[i])], UrlArg(h, url))

\* index && masks[index]
AndIndex(index, masks) == IF Truthy(index) THEN masks[index.n + 1] ELSE index

\* Fuzzyurl.bestMatch
FuzzyurlBestMatch(h, masks, url) ==
  AndIndex(FuzzyurlBestMatchIndex(h, masks, url), masks)

\* new Fuzzyurl(params): a fresh object holding the fields of params.
NewFuzzyurl(h, params) == [heap |-> Append(h, params), addr |-> Len(h) + 1]

\* Fuzzyurl.mask, the if-chain: the object fu whose keys are copied, or the throw.
MaskSource(h, params) ==
  IF params.t = "string"
  THEN [threw |-> FALSE, fu |-> FuzzyurlFromString(params.s, [default |-> Star])]
  ELSE IF ~Truthy(params) THEN [threw |-> FALSE, fu |-> EmptyObject]
  ELSE IF params.t = "object" THEN [threw |-> FALSE, fu |-> h[params.a]]
  ELSE [threw |-> TRUE, fu |-> EmptyObject]

\* var m = maskDefaults: the template itself, not a copy of it.
MaskTargetAliased(h) == [heap |-> h, addr |-> maskDefaults]

\* var m = new Fuzzyurl(maskDefaults)
MaskTarget(h) == NewFuzzyurl(h, h[maskDefaults])

\* Object.keys(fu).forEach((k) => { if (fu[k]) m[k] = fu[k]; })
CopyKeys(m, fu) == [k \in Fields |-> IF TruthyField(fu[k]) THEN fu[k] ELSE m[k]]

\* Fuzzyurl.mask(params): the heap after the call and what it returns.
FuzzyurlMask(h, params) ==
  LET src == MaskSource(h, params)
      m == MaskTarget(h)
  IN IF src.threw THEN [threw |-> TRUE, heap |-> h, ret |-> JUndefined]
     ELSE [threw |-> FALSE,
           heap |-> [m.heap EXCEPT ![m.addr] = CopyKeys(@, src.fu)],
           ret |-> JObject(m.addr)]

(***************************************************************************)
(* The state machine: one action per call of the interface.                *)
(***************************************************************************)
Idle == [op |-> "idle"]

\* The addresses a caller holds: every object but the module's template.
CallerAddrs == 2..Len(heap)

\* new Fuzzyurl({...}) by a caller.
Construct(fields) ==
  /\ last = Idle
  /\ Len(heap) < MaxHeap
  /\ LET n == NewFuzzyurl(heap, fields)
     IN /\ heap' = n.heap
        /\ origin' = Append(origin, [by |-> "new"])
        /\ last' = [op |-> "new", ret |-> JObject(n.addr)]

CallMask(params) ==
  /\ last = Idle
  /\ Len(heap) < MaxHeap
  /\ LET r == FuzzyurlMask(heap, params)
     IN /\ heap' = r.heap
        /\ origin' = IF Len(r.heap) > Len(heap)
                     THEN Append(origin, [by |-> "mask"])
                     ELSE origin
        /\ last' = [op |-> "mask", params |-> params, threw |-> r.threw, ret |-> r.ret]

CallFromString(string, options) ==
  /\ last = Idle
  /\ LET n == NewFuzzyurl(heap, FuzzyurlFromString(string, options))
     IN /\ heap' = n.heap
        /\ origin' = Append(origin, [by |-> "fromString", string |-> string])
        /\ last' = [op |-> "fromString", string |-> string, options |-> options,
                    ret |-> JObject(n.addr)]

CallToString(fuzzyurl) ==
  /\ last = Idle
  /\ last' = [op |-> "toString", fuzzyurl |-> fuzzyurl,
              ret |-> JString(FuzzyurlToString(heap[fuzzyurl.a]))]
  /\ UNCHANGED <<heap, origin>>

CallMatch(mask, url) ==
  /\ last = Idle
  /\ last' = [op |-> "match", mask |-> mask, url |-> url,
              ret |-> FuzzyurlMatch(heap, mask, url)]
  /\ UNCHANGED <<heap, origin>>

CallMatches(mask, url) ==
  /\ last = Idle
  /\ last' = [op |-> "matches", mask |-> mask, url |-> url,
              ret |-> FuzzyurlMatches(heap, mask, url)]
  /\ UNCHANGED <<heap, origin>>

CallMatchScores(mask, url) ==
  /\ last = Idle
  /\ last' = [op |-> "matchScores", mask |-> mask, url |-> url,
              ret |-> FuzzyurlMatchScores(heap, mask, url)]
  /\ UNCHANGED <<heap, origin>>

CallBestMatchIndex(masks, url) ==
  /\ last = Idle
  /\ last' = [op |-> "bestMatchIndex", masks |-> masks, url |-> url,
              ret |-> FuzzyurlBestMatchIndex(heap, masks, url)]
  /\ UNCHANGED <<heap, origin>>

CallBestMatch(masks, url) ==
  /\ last = Idle
  /\ last' = [op |-> "bestMatch", masks |-> masks, url |-> url,
              ret |-> FuzzyurlBestMatch(heap, masks, url)]
  /\ UNCHANGED <<heap, origin>>

\* The call returns to its caller.
Return == last # Idle /\ last' = Idle /\ UNCHANGED <<heap, origin>>

Init ==
  /\ heap = <<MaskDefaultsLiteral>>
  /\ origin = <<[by |-> "module"]>>
  /\ last = Idle

(***************************************************************************)
(* The arguments the callers pass.                                         *)
(***************************************************************************)
\* "/a/*", "/a/b" and "/a/**": the masks of the README's examples, shortened.
PathStar == <<"/", "a", "/", "*">>

PathAB == <<"/", "a", "/", "b">>

PathStarStar == <<"/", "a", "/", "*", "*">>

\* "h://e.c/a/b"
UrlAB == <<"h", ":", "/", "/", "e", ".", "c", "/", "a", "/", "b">>

\* "e.c?": a url whose query is the empty string.
UrlEmptyQuery == <<"e", ".", "c", "?">>

With(fields, f, x) == [fields EXCEPT ![f] = x]

\* Objects a caller builds: {path: "/a/**"} and {hostname: "e.c", path: ""}.
ParamObjects ==
  {With(EmptyObject, "path", PathStarStar),
   With(With(EmptyObject, "hostname", <<"e", ".", "c">>), "path", <<>>)}

\* Values a caller passes that are neither strings nor objects.
Primitives ==
  {JNull, JUndefined, JNumber(0), JNumber(1), JBoolean(FALSE), JBoolean(TRUE)}

NoOptions == JUndefined

OptionValues == {NoOptions, [default |-> Star]}

Objects == {JObject(a) : a \in CallerAddrs}

MaskValues == {JString(PathStar)} \cup Objects

UrlValues == {JString(UrlAB)} \cup Objects

\* Lists of one or two masks.
MaskLists ==
  {<<m>> : m \in MaskValues} \cup {<<JString(PathStar), m>> : m \in MaskValues}

Next ==
  \/ \E fields \in ParamObjects : Construct(fields)
  \/ \E params \in {JString(PathStar)} \cup Primitives \cup Objects :
       CallMask(params)
  \/ \E s \in {UrlAB, UrlEmptyQuery}, o \in OptionValues :
       Len(heap) < MaxHeap /\ CallFromString(s, o)
  \/ \E fu \in Objects : CallToString(fu)
  \/ \E m \in MaskValues, u \in UrlValues : CallMatch(m, u)
  \/ \E m \in MaskValues, u \in UrlValues : CallMatches(m, u)
  \/ \E m \in MaskValues, u \in UrlValues : CallMatchScores(m, u)
  \/ \E ms \in MaskLists, u \in UrlValues : CallBestMatchIndex(ms, u)
  \/ \E ms \in MaskLists, u \in UrlValues : CallBestMatch(ms, u)
  \/ Return

Spec == Init /\ [][Next]_vars

(***************************************************************************)
(* Best-match selection over lists of up to MaxMasks masks.  The heap      *)
(* holds two masks made by Fuzzyurl.mask: mask() and a mask with a literal *)
(* path.                                                                   *)
(***************************************************************************)
\* "/c"
PathC == <<"/", "c">>

RECURSIVE ListsUpTo(_, _)
ListsUpTo(elements, n) ==
  IF n = 0 THEN {<<>>}
  ELSE LET shorter == ListsUpTo(elements, n - 1)
       IN shorter \cup {Append(l, e) : l \in shorter, e \in elements}

SelectMasks ==
  {JString(PathStar), JString(PathAB), JString(PathC), JObject(2), JObject(3)}

SelectUrls == {JString(UrlAB), JString(<<"e", ".", "c">> \o PathC), JString(<<>>)}

InitSelect ==
  /\ \E path \in {PathAB, PathStar, PathC} :
       heap = <<MaskDefaultsLiteral, MaskDefaultsLiteral,
                With(MaskDefaultsLiteral, "path", path)>>
  /\ origin = <<[by |-> "module"], [by |-> "mask"], [by |-> "mask"]>>
  /\ last = Idle

NextSelect ==
  \/ \E ms \in ListsUpTo(SelectMasks, MaxMasks), u \in SelectUrls :
       CallBestMatchIndex(ms, u)
  \/ \E ms \in ListsUpTo(SelectMasks, MaxMasks), u \in SelectUrls :
       CallBestMatch(ms, u)
  \/ Return

SpecSelect == InitSelect /\ [][NextSelect]_vars

(***************************************************************************)
(* Matching a mask object against a url object, field by field.  The heap  *)
(* holds a mask (address 2) and a url (address 3) built by the caller.     *)
(***************************************************************************)
LitA == <<"a">>

LitB == <<"b">>

InitMatch ==
  /\ \E m \in [Fields -> {Star, LitA, LitB}], u \in {[f \in Fields |-> LitA]} :
       heap = <<MaskDefaultsLiteral, m, u>>
  /\ origin = <<[by |-> "module"], [by |-> "new"], [by |-> "new"]>>
  /\ last = Idle

MatchMaskValues == {JObject(2), JString(PathStar)}

MatchUrlValues == {JObject(3), JString(UrlAB)}

NextMatch ==
  \/ \E m \in MatchMaskValues, u \in MatchUrlValues : CallMatch(m, u)
  \/ \E m \in MatchMaskValues, u \in MatchUrlValues : CallMatches(m, u)
  \/ \E m \in MatchMaskValues, u \in MatchUrlValues : CallMatchScores(m, u)
  \/ Return

SpecMatch == InitMatch /\ [][NextMatch]_vars

(***************************************************************************)
(* One field at a time: a mask that is "*" but for its hostname (or its    *)
(* path) against a url that has only that field.                           *)
(***************************************************************************)
Separator(kind) == IF kind = "hostname" THEN "." ELSE "/"

FieldAlphabet(kind) == {"a", "*", Separator(kind)}

FieldValues(kind) == StringsUpTo(FieldAlphabet(kind), MaxLen)

\* The literal part of a wildcard mask: the S of "*.S", the P of "P/*".
FieldParts(kind) == StringsUpTo(FieldAlphabet(kind), MaxPart)

WildcardMasks(kind) ==
  IF kind = "hostname"
  THEN {<<"*", ".">> \o s : s \in FieldParts(kind)}
       \cup {<<"*", "*", ".">> \o s : s \in FieldParts(kind)}
  ELSE {p \o <<"/", "*">> : p \in FieldParts(kind)}
       \cup {p \o <<"/", "*", "*">> : p \in FieldParts(kind)}

FieldMasks(kind) == FieldValues(kind) \cup WildcardMasks(kind)

InitField ==
  /\ \E kind \in {"hostname", "path"} :
       \E m \in FieldMasks(kind), v \in FieldValues(kind) \cup {Undefined} :
         heap = <<MaskDefaultsLiteral, With(MaskDefaultsLiteral, kind, m),
                  With(AllAbsent, kind, v)>>
  /\ origin = <<[by |-> "module"], [by |-> "mask"], [by |-> "new"]>>
  /\ last = Idle

NextField ==
  \/ CallMatchScores(JObject(2), JObject(3))
  \/ CallMatch(JObject(2), JObject(3))
  \/ Return

SpecField == InitField /\ [][NextField]_vars

(***************************************************************************)
(* Parsing a string and writing the result back.                           *)
(***************************************************************************)
\* A component: a string of at most MaxPart letters c.
Component(c) == StringsUpTo({c}, MaxPart)

\* The strings in which all eight components appear with their delimiters.
FullStrings ==
  {p \o <<":", "/", "/">> \o u \o <<":">> \o w \o <<"@">> \o h \o <<":">> \o n
     \o <<"/">> \o x \o <<"?">> \o q \o <<"#">> \o f :
     p \in Component("h"), u \in Component("u"), w \in Component("w"),
     h \in Component("e") \ {<<>>}, n \in Component("8"), x \in Component("a"),
     q \in Component("q"), f \in Component("f")}

CodecStrings == FullStrings \cup {UrlAB, UrlEmptyQuery, PathStar, <<>>}

NextCodec ==
  \/ \E s \in CodecStrings : Len(heap) = 1 /\ CallFromString(s, NoOptions)
  \/ \E fu \in Objects : CallToString(fu)
  \/ Return

SpecCodec == Init /\ [][NextCodec]_vars

(***************************************************************************)
(* Properties.                                                             *)
(***************************************************************************)
\* The scores Fuzzyurl.match gives the masks of the call in progress.
ListScores == [i \in 1..Len(last.masks) |-> FuzzyurlMatch(heap, last.masks[i], last.url)]

\* C1: bestMatch returns masks[i] for the index i that bestMatchIndex
\* returns, index 0 included, and null only when bestMatchIndex returns null.
BestMatchReturnsTheMask ==
  last.op = "bestMatch" =>
    LET index == FuzzyurlBestMatchIndex(heap, last.masks, last.url)
    IN IF index = JNull THEN last.ret = JNull
       ELSE last.ret = last.masks[index.n + 1]

\* C2: bestMatchIndex returns null iff no mask of the list matches the url;
\* otherwise the smallest index whose score is the maximum over the list.
BestMatchIndexIsFirstMaximum ==
  last.op = "bestMatchIndex" =>
    LET scores == ListScores
        matching == {i \in 1..Len(last.masks) : scores[i] # JNull}
    IN /\ last.ret = JNull <=> matching = {}
       /\ last.ret # JNull =>
            /\ last.ret.n + 1 \in matching
            /\ \A j \in matching : scores[j].n <= scores[last.ret.n + 1].n
            /\ \A j \in matching :
                 j < last.ret.n + 1 => scores[j].n < scores[last.ret.n + 1].n

\* A list in which a later mask scores as high as an earlier one, and the
\* earlier one has been returned, at an index other than 0.
BestMatchIndexTieWitness ==
  /\ last.op = "bestMatchIndex"
  /\ last.ret # JNull
  /\ last.ret.n = 1
  /\ \E j \in 1..Len(last.masks) :
       /\ j > last.ret.n + 1
       /\ ListScores[j] = ListScores[last.ret.n + 1]

\* The per-field outcomes of the match in progress.
Outcomes ==
  LET m == MaskArg(heap, last.mask)
      u == UrlArg(heap, last.url)
  IN [f \in Fields |-> MatchFuzzyMatch(m[f], u[f], FieldKind(f))]

\* C3: match returns null iff some field's outcome is NONE, whatever the
\* other seven are; otherwise the number of PERFECT fields, within 0..8; and
\* matches is true exactly when match is not null.
MatchIsVetoOrSum ==
  /\ last.op = "match" =>
       /\ last.ret = JNull <=> \E f \in Fields : Outcomes[f] = NONE
       /\ last.ret # JNull =>
            /\ last.ret.n \in 0..8
            /\ last.ret.n = Cardinality({f \in Fields : Outcomes[f] = PERFECT})
  /\ last.op = "matches" =>
       last.ret = JBoolean(\A f \in Fields : Outcomes[f] # NONE)

\* A match vetoed by one field while the other seven are PERFECT, and a
\* match of score 0.
MatchVetoWitness ==
  /\ last.op = "match"
  /\ last.ret = JNull
  /\ Cardinality({f \in Fields : Outcomes[f] = PERFECT}) = 7

\* What params supplies to Fuzzyurl.mask, field by field.
Supplied(params) ==
  IF params.t = "string" THEN StringsFromString(params.s, Undefined)
  ELSE IF params.t = "object" THEN heap[params.a]
  ELSE EmptyObject

\* C4: mask(params) returns a record whose every field holds the value
\* params supplies for it (the empty string included) and "*" where params
\* supplies none.
MaskOverlaysParams ==
  (last.op = "mask" /\ ~last.threw) =>
    \A k \in Fields :
      heap[last.ret.a][k] =
        IF Supplied(last.params)[k] # Undefined THEN Supplied(last.params)[k] ELSE Star

\* C5: mask(params) throws for every params that is neither a string, an
\* object, null nor undefined.
MaskRejectsOtherTypes ==
  (last.op = "mask" /\ last.params.t \in {"number", "boolean"}) => last.threw

\* C6: fromString(s, {default: d}) sets every field not delimited in s to d,
\* and leaves it absent when no default is given.
FromStringAppliesDefault ==
  last.op = "fromString" =>
    \A f \in Fields :
      StringsFromString(last.string, Undefined)[f] = Undefined =>
        heap[last.ret.a][f] =
          IF last.options = NoOptions THEN Undefined ELSE last.options.default

(***************************************************************************)
(* Hostname and path wildcards (SpecField).                                *)
(***************************************************************************)
\* The pieces of s between the occurrences of sep, from position i on.
RECURSIVE SplitFrom(_, _, _, _)
SplitFrom(s, sep, i, piece) ==
  IF i > Len(s) THEN <<piece>>
  ELSE IF s[i] = sep THEN <<piece>> \o SplitFrom(s, sep, i + 1, <<>>)
  ELSE SplitFrom(s, sep, i + 1, Append(piece, s[i]))

Split(s, sep) == SplitFrom(s, sep, 1, <<>>)

Join2(a, sep, b) == a \o <<sep>> \o b

\* value = x . "." . suffix for some x with a non-empty label.
EndsWithLabelBefore(value, suffix) ==
  \E n \in 1..Len(value) :
    /\ value = Join2(Take(value, n), ".", suffix)
    /\ \E i \in 1..Len(Split(Take(value, n), ".")) : Split(Take(value, n), ".")[i] # <<>>

\* value = suffix, or value ends with "." . suffix.
EndsWithSuffix(value, suffix) ==
  \E n \in 0..Len(value) : value = Join2(Take(value, n), ".", suffix)

\* value = prefix . "/" . x for some x, the empty one included.
StartsWithSegment(value, prefix) ==
  \E n \in 0..Len(value) : value = Join2(prefix, "/", Drop(value, Len(value) - n))

HostnameCase == origin[2].by = "mask" /\ heap[2].path = Star /\ heap[3].hostname # Undefined

PathCase == origin[2].by = "mask" /\ heap[2].hostname = Star /\ heap[3].path # Undefined

RoundTrip ==
  (/\ last.op = "toString"
   /\ origin[last.fuzzyurl.a].by = "fromString"
   /\ origin[last.fuzzyurl.a].string \in FullStrings) =>
    last.ret = JString(origin[last.fuzzyurl.a].string)

\* A string with all eight components, its query empty, has been parsed and
\* written back.
RoundTripWitness ==
  /\ last.op = "toString"
  /\ origin[last.fuzzyurl.a].by = "fromString"
  /\ origin[last.fuzzyurl.a].string \in FullStrings
  /\ heap[last.fuzzyurl.a].query = <<>>
  /\ heap[last.fuzzyurl.a].fragment = <<"f">>

(***************************************************************************)
(* Frame (Spec).                                                           *)
(***************************************************************************)
\* What a step leaves alone: every object alive keeps its fields, the
\* template among them, and a mask returned is an object that did not
\* exist before.
Frame ==
  /\ \A a \in DOMAIN heap : a \in DOMAIN heap' /\ heap'[a] = heap[a]
  /\ (last'.op = "mask" /\ ~last'.threw) =>
       /\ last'.ret.a \notin DOMAIN heap
       /\ last'.ret.a # maskDefaults
       /\ last'.params.t = "object" => last'.ret.a # last'.params.a

\* C10: whatever is called, maskDefaults keeps "*" in all eight fields, no
\* object passed in is changed, and each mask returned is a new object,
\* distinct from params and from the template.
OperationsArePure ==
  /\ [](heap[maskDefaults] = MaskDefaultsLiteral)
  /\ [][Frame]_vars

\* mask has been called on an object its caller built, and has returned a
\* third object that differs from its argument and from the template.
PureWitness ==
  /\ last.op = "mask"
  /\ last.params.t = "object"
  /\ origin[last.params.a].by = "new"
  /\ ~last.threw
  /\ heap[last.ret.a] # heap[last.params.a]
  /\ heap[last.ret.a] # MaskDefaultsLiteral
  /\ heap[maskDefaults] = MaskDefaultsLiteral
====
